---- MODULE Spec2Model ----
(***************************************************************************)
(* State machine of the IE:VR Mod Manager main window                      *)
(* (src/src/ui/main_window.py): the ordered mod list with its selection,   *)
(* the configured paths, the auto-saved configuration, the posted log      *)
(* callbacks, and the background merge/copy/cleanup jobs.                  *)
(*                                                                         *)
(* Python indices are kept 0-based as in the source: At(s, i) reads s[i].  *)
(* The collaborators that are only called from this slice (ModManager,     *)
(* ModsPanel, ConfigManager, ViolaIntegration) are modelled after their    *)
(* documented contracts.                                                    *)
(***************************************************************************)
EXTENDS Integers, Sequences, FiniteSets, TLC

\* ---------------------------------------------------------------- bounds
NumMods == 2
MaxSaved == 1
MaxBacklog == 0
MaxJobs == 2
MaxIdx == 3
MaxMsgLines == 3
MaxAppends == 4

Mods == 1..NumMods

VARIABLES
    phase,          \* "constructing" | "mainloop": position in MainWindow.__init__
    game_path,      \* tk.StringVar values
    cfgbin_path,
    violacli_path,
    tmp_dir,
    mod_entries,    \* self.mod_entries: sequence of ModEntry
    saved_mods,     \* self.saved_mods: the "mods" list of the loaded config
    selection,      \* ModsPanel selection: {} or {idx}, idx 0-based
    traces,         \* per entry name: write traces on its enabled variable
    config_file,    \* what ConfigManager has persisted
    after_queue,    \* callbacks posted with self.after(0, ...), oldest first
    log_tail,       \* the lines at the end of the log's text widget: all of
                    \* them where the log is followed, else the last record's
    dialog,         \* the messagebox the last handler showed (<<>>: none)
    raised,         \* the exception the last handler let escape ("none")
    jobs,           \* the worker threads started so far, with their progress
    fs,             \* what apply touches on disk: work dir, game cpk list
    last_op,        \* observer: name of the handler that ran last
    hist,           \* observer: states before the last handlers
    appended        \* observer: calls of LogPanel.log counted so far

vars == <<phase, game_path, cfgbin_path, violacli_path, tmp_dir, mod_entries,
          saved_mods, selection, config_file, after_queue, log_tail,
          dialog, raised, jobs, fs, last_op, hist, traces, appended>>

pathVars == <<game_path, cfgbin_path, violacli_path, tmp_dir>>
listVars == <<mod_entries, saved_mods, selection, traces>>
logVars == <<after_queue, log_tail>>

\* ------------------------------------------------------------- helpers
At(s, i) == s[i + 1]

Names(entries) == {entries[i].name : i \in DOMAIN entries}

RECURSIVE SortedSeq(_)
SortedSeq(S) ==
    IF S = {} THEN <<>>
    ELSE LET m == CHOOSE x \in S : \A y \in S : x <= y
         IN <<m>> \o SortedSeq(S \ {m})

RECURSIVE SeqsNoDup(_, _)
SeqsNoDup(S, n) ==
    IF n = 0 THEN {<<>>}
    ELSE LET shorter == SeqsNoDup(S, n - 1)
             longest == {p \in shorter \X S :
                            /\ Len(p[1]) = n - 1
                            /\ \A i \in DOMAIN p[1] : p[1][i] # p[2]}
         IN shorter \cup {Append(p[1], p[2]) : p \in longest}

\* ------------------------------------------------------------- ModEntry
DEFAULT_MODS_DIR == "Mods"
DEFAULT_TMP_DIR == "tmp"

ModPath(name) == <<DEFAULT_MODS_DIR, name>>

ModEntry(name, enabled) ==
    [name |-> name, enabled |-> enabled, path |-> ModPath(name)]

SavedOf(entries) ==
    [i \in DOMAIN entries |->
        [name |-> entries[i].name, enabled |-> entries[i].enabled]]

\* ModManager.scan_mods(saved_mods, existing_entries): reconcile of the
\* contract.  The previous order and state are the existing entries, or the
\* saved list of the configuration when there are none.
ScanMods(saved, existing, disk) ==
    LET previous == IF existing # <<>> THEN SavedOf(existing) ELSE saved
        kept == SelectSeq(previous, LAMBDA p : p.name \in disk)
        fresh == SortedSeq(disk \ {previous[i].name : i \in DOMAIN previous})
    IN [i \in 1..Len(kept) |-> ModEntry(kept[i].name, kept[i].enabled)]
       \o [i \in 1..Len(fresh) |-> ModEntry(fresh[i], FALSE)]

\* ModManager.get_enabled_mods(entries): enabledSubsetInOrder of the contract.
GetEnabledMods(entries) ==
    LET on == SelectSeq(entries, LAMBDA e : e.enabled)
    IN [i \in 1..Len(on) |-> on[i].path]

\* ------------------------------------------------------------ ModsPanel
\* get_selected_index(): None (here {}) or the index of the selected row.
NoSelection == {}
SetModEntries(entries) == NoSelection
SelectMod(entries, name) ==
    {i \in 0..(Len(entries) - 1) : At(entries, i).name = name}

\* ------------------------------------------------------------ log, save
Rec(text, level) == [text |-> text, level |-> level]

\* MainWindow._log: the append is posted, never run in place.
PostLog(queue, text, level) == Append(queue, Rec(text, level))

CurrentConfig(gp, cp, vp, td, entries) ==
    [game_path |-> gp, cfgbin_path |-> cp, violacli_path |-> vp,
     tmp_dir |-> td, mods |-> SavedOf(entries)]

NoDialog == <<>>
Box(kind, text) == <<kind, text>>

SaveConfigNoAlert(st, cfg, ok) ==
    IF ok
    THEN [file |-> cfg,
          queue |-> PostLog(st.queue, "Configuration saved", "success"),
          dialog |-> st.dialog]
    ELSE [file |-> st.file,
          queue |-> PostLog(st.queue, "Could not save configuration.", "error"),
          dialog |-> st.dialog]

\* MainWindow._save_config: one call of the store with the current values;
\* st carries the persisted file, the posted callbacks and the alert shown.
SaveConfig(st, cfg, ok) ==
    IF ok
    THEN [file |-> cfg,
          queue |-> PostLog(st.queue, "Configuration saved", "success"),
          dialog |-> st.dialog]
    ELSE [file |-> st.file,
          queue |-> PostLog(st.queue, "Could not save configuration.", "error"),
          dialog |-> Box("error", "Could not save configuration.")]

\* The saves one handler issues, in order: cfgs[i] is what the i-th call
\* carries and oks[i] what the store answers.
RECURSIVE SaveEach(_, _, _)
SaveEach(st, cfgs, oks) ==
    IF cfgs = <<>> THEN st
    ELSE SaveEach(SaveConfig(st, Head(cfgs), Head(oks)), Tail(cfgs), Tail(oks))

SaveStart == [file |-> config_file, queue |-> after_queue, dialog |-> NoDialog]

AllOk(n) == [i \in 1..n |-> TRUE]

UiReady == phase = "mainloop" /\ Len(after_queue) <= MaxBacklog


Repeat(x, n) == [i \in 1..n |-> x]

\* ------------------------------------------------------------ list part
\* The entries a scan returns are new objects: nothing traces their
\* enabled variables yet.
FreshTraces(entries) == [n \in Names(entries) |-> 0]

\* MainWindow.scan_mods adds one write trace to every entry of the result.
RegisterNoTraces(tr) == tr

RegisterTraces(tr) == [n \in DOMAIN tr |-> tr[n] + 1]

\* What MainWindow.scan_mods assigns to self.mod_entries.
ScanResultAccumulate(saved, existing, disk) ==
    existing \o ScanMods(saved, existing, disk)

ScanResult(saved, existing, disk) == ScanMods(saved, existing, disk)

\* MainWindow.scan_mods (the Scan Mods button); disk is the set of mod
\* folders the scan finds under DEFAULT_MODS_DIR.
scan_mods(disk, oks) ==
    /\ UiReady
    /\ LET entries == ScanResult(saved_mods, mod_entries, disk)
           st == SaveEach(SaveStart,
                          <<CurrentConfig(game_path, cfgbin_path, violacli_path,
                                          tmp_dir, entries)>>, oks)
       IN /\ mod_entries' = entries
          /\ traces' = RegisterTraces(FreshTraces(entries))
          /\ selection' = SetModEntries(entries)
          /\ config_file' = st.file
          /\ after_queue' = st.queue
          /\ dialog' = st.dialog
    /\ raised' = "none"
    /\ UNCHANGED <<phase, pathVars, saved_mods, log_tail, jobs, fs>>

\* The user clicks row i of the mods table.
select_row(i) ==
    /\ UiReady
    /\ i \in 0..(Len(mod_entries) - 1)
    /\ selection' = {i}
    /\ UNCHANGED <<phase, pathVars, mod_entries, saved_mods, traces,
                   config_file, logVars, dialog, raised, jobs, fs>>

\* get_selected_index() of the panel: None is "None", else the index.
HasSelection == selection # {}
SelectedIndex == CHOOSE i \in selection : TRUE

\* Python subscripting: s[i] exists for -len <= i < len.
PyInRange(s, i) == -Len(s) <= i /\ i < Len(s)
PyPos(s, i) == IF i >= 0 THEN i + 1 ELSE Len(s) + i + 1

\* a[i], a[j] = (a[j], a[i]) with the targets assigned left to right.
PySwapCopy(s, i, j) == [s EXCEPT ![PyPos(s, i)] = s[PyPos(s, j)]]

PySwap(s, i, j) ==
    LET x == s[PyPos(s, j)]
        y == s[PyPos(s, i)]
        s1 == [s EXCEPT ![PyPos(s, i)] = x]
    IN [s1 EXCEPT ![PyPos(s, j)] = y]

\* The handler returns without touching anything.
HandlerReturns ==
    /\ dialog' = NoDialog
    /\ raised' = "none"
    /\ UNCHANGED <<phase, pathVars, listVars, config_file, logVars,
                   jobs, fs>>

\* The handler lets an exception escape before it changed anything.
HandlerRaises(exc) ==
    /\ dialog' = NoDialog
    /\ raised' = exc
    /\ UNCHANGED <<phase, pathVars, listVars, config_file, logVars,
                   jobs, fs>>

\* The entries after the swap of move_up / move_down, and the row selected
\* afterwards: select_mod is given the entry now at keep.
MovedSelectsOther(entries, idx, keep) ==
    SelectMod(entries, entries[PyPos(entries, idx)].name)

MovedSelects(entries, idx, keep) ==
    SelectMod(entries, entries[PyPos(entries, keep)].name)

ReorderNoSave(entries, idx, keep, oks) ==
    /\ mod_entries' = entries
    /\ selection' = MovedSelects(entries, idx, keep)
    /\ dialog' = NoDialog
    /\ raised' = "none"
    /\ UNCHANGED <<phase, pathVars, saved_mods, traces, config_file, logVars,
                   jobs, fs>>

Reorder(entries, idx, keep, oks) ==
    LET st == SaveEach(SaveStart,
                       <<CurrentConfig(game_path, cfgbin_path, violacli_path,
                                       tmp_dir, entries)>>, oks)
    IN /\ mod_entries' = entries
       /\ selection' = MovedSelects(entries, idx, keep)
       /\ config_file' = st.file
       /\ after_queue' = st.queue
       /\ dialog' = st.dialog
       /\ raised' = "none"
       /\ UNCHANGED <<phase, pathVars, saved_mods, traces, log_tail, jobs, fs>>

\* MainWindow.move_up.
move_up(oks) ==
    /\ UiReady
    /\ IF ~HasSelection \/ SelectedIndex <= 0
       THEN HandlerReturns
       ELSE LET idx == SelectedIndex
            IN IF ~PyInRange(mod_entries, idx)
               THEN HandlerRaises("IndexError")
               ELSE Reorder(PySwap(mod_entries, idx - 1, idx), idx, idx - 1, oks)

\* MainWindow.move_down.
move_down(oks) ==
    /\ UiReady
    /\ IF ~HasSelection \/ SelectedIndex >= Len(mod_entries) - 1
       THEN HandlerReturns
       ELSE LET idx == SelectedIndex
            IN IF ~PyInRange(mod_entries, idx)
               THEN HandlerRaises("IndexError")
               ELSE Reorder(PySwap(mod_entries, idx + 1, idx), idx, idx + 1, oks)

\* me.enabled.set(value) on the entries at positions 1..k, each write firing
\* the trace of its entry: the list after the first k writes.
SetFirstReversed(entries, k, value) ==
    [i \in DOMAIN entries |->
        LET e == entries[Len(entries) + 1 - i]
        IN IF Len(entries) + 1 - i <= k THEN [e EXCEPT !.enabled = value] ELSE e]

SetFirst(entries, k, value) ==
    [i \in DOMAIN entries |->
        IF i <= k THEN [entries[i] EXCEPT !.enabled = value] ELSE entries[i]]

\* MainWindow._on_mod_double_click: toggles the selected entry; the trace of
\* the entry saves.
toggle(oks) ==
    /\ UiReady
    /\ IF ~HasSelection
       THEN HandlerReturns
       ELSE LET idx == SelectedIndex
            IN IF ~PyInRange(mod_entries, idx)
               THEN HandlerRaises("IndexError")
               ELSE LET pos == PyPos(mod_entries, idx)
                        entries == [mod_entries EXCEPT
                                      ![pos].enabled = ~mod_entries[pos].enabled]
                        st == SaveEach(SaveStart,
                                 Repeat(CurrentConfig(game_path, cfgbin_path,
                                           violacli_path, tmp_dir, entries),
                                        traces[mod_entries[pos].name]), oks)
                    IN /\ mod_entries' = entries
                       /\ config_file' = st.file
                       /\ after_queue' = st.queue
                       /\ dialog' = st.dialog
                       /\ raised' = "none"
                       /\ UNCHANGED <<phase, pathVars, saved_mods, selection,
                                      traces, log_tail, jobs, fs>>

\* The saves the traces make while enable_all / disable_all writes the
\* first k entries: each write runs every trace of its entry, and each trace
\* saves the list as it is then.
RECURSIVE WriteSaves(_, _, _)
WriteSaves(entries, value, k) ==
    IF k = 0 THEN <<>>
    ELSE WriteSaves(entries, value, k - 1) \o
         Repeat(CurrentConfig(game_path, cfgbin_path, violacli_path, tmp_dir,
                              SetFirst(entries, k, value)),
                traces[entries[k].name])

\* MainWindow.enable_all / disable_all: one write per entry, each running
\* the entry's traces, then the handler's own save.
SetAll(value, oks) ==
    LET n == Len(mod_entries)
        cfgs == WriteSaves(mod_entries, value, n) \o
                   <<CurrentConfig(game_path, cfgbin_path, violacli_path,
                                   tmp_dir, SetFirst(mod_entries, n, value))>>
        st == SaveEach(SaveStart, cfgs, oks)
    IN /\ mod_entries' = SetFirst(mod_entries, n, value)
       /\ config_file' = st.file
       /\ after_queue' = st.queue
       /\ dialog' = st.dialog
       /\ raised' = "none"
       /\ UNCHANGED <<phase, pathVars, saved_mods, selection, traces,
                      log_tail, jobs, fs>>

enable_all(oks) == UiReady /\ SetAll(TRUE, oks)

disable_all(oks) == UiReady /\ SetAll(FALSE, oks)

\* LogPanel.log on a text widget holding the lines in widget (the empty
\* line Tk keeps at the end left out).  lines are the lines of the message,
\* the message split at its line separators; the first one follows the
\* timestamp on its line.  The widget is then cut to MAX_LOG_LINES by lines.
MAX_LOG_LINES == 1000

LogPanelLog(widget, lines, level) ==
    LET inserted == widget \o
            [k \in 1..Len(lines) |->
                [text |-> lines[k], level |-> level, stamped |-> k = 1]]
        count == Len(inserted) + 1
    IN IF count > MAX_LOG_LINES
       THEN SubSeq(inserted, count - MAX_LOG_LINES, Len(inserted))
       ELSE inserted

\* LogPanel.log called directly.
log(lines, level) ==
    /\ phase = "mainloop"
    /\ log_tail' = LogPanelLog(log_tail, lines, level)
    /\ UNCHANGED <<phase, pathVars, listVars, config_file, after_queue,
                   dialog, raised, jobs, fs>>

\* The lines of the record inserted last (a record starts at its timestamp).
LastRecord(widget) ==
    LET stamps == {i \in DOMAIN widget : widget[i].stamped}
        from == IF stamps = {} THEN 1
                ELSE CHOOSE i \in stamps : \A j \in stamps : j <= i
    IN SubSeq(widget, from, Len(widget))

\* The event loop runs the oldest posted callback: LogPanel.log(text, level);
\* the messages MainWindow posts are one line each.
RunPosted ==
    /\ phase = "mainloop"
    /\ after_queue # <<>>
    /\ LET r == Head(after_queue)
       IN log_tail' = LastRecord(LogPanelLog(log_tail, <<r.text>>, r.level))
    /\ after_queue' = Tail(after_queue)
    /\ UNCHANGED <<phase, pathVars, listVars, config_file, dialog,
                   raised, jobs, fs>>

\* ------------------------------------------------------------ paths
\* str.strip() on the path values the model uses.
Strip(p) ==
    CASE p = "  " -> ""
      [] p = " C:/game " -> "C:/game"
      [] OTHER -> p

FsDirs == {"C:/game"}
FsFiles == {"C:/cpk_list.cfg.bin", "C:/violacli.exe"}
IsDir(p) == p \in FsDirs
Exists(p) == p \in FsDirs \cup FsFiles

GamePaths == {"", " C:/game ", "C:/nowhere", "C:/cpk_list.cfg.bin"}
CfgbinPaths == {"  ", "C:/cpk_list.cfg.bin", "C:/nowhere"}
ViolacliPaths == {"", "C:/violacli.exe", "C:/nowhere"}

\* os.path.abspath of the work directory, os.path.join.
Abspath(p) == <<"C:/app", p>>
Join(a, b) == <<a, b>>

\* A write to one of the path variables (typing in the entry of the
\* configuration window): the write trace saves.
edit_game_path(p, oks) ==
    /\ UiReady
    /\ LET st == SaveEach(SaveStart,
                    <<CurrentConfig(p, cfgbin_path, violacli_path, tmp_dir,
                                    mod_entries)>>, oks)
       IN /\ game_path' = p
          /\ config_file' = st.file
          /\ after_queue' = st.queue
          /\ dialog' = st.dialog
    /\ raised' = "none"
    /\ UNCHANGED <<phase, cfgbin_path, violacli_path, tmp_dir, listVars, log_tail, jobs, fs>>

edit_cfgbin_path(p, oks) ==
    /\ UiReady
    /\ LET st == SaveEach(SaveStart,
                    <<CurrentConfig(game_path, p, violacli_path, tmp_dir,
                                    mod_entries)>>, oks)
       IN /\ cfgbin_path' = p
          /\ config_file' = st.file
          /\ after_queue' = st.queue
          /\ dialog' = st.dialog
    /\ raised' = "none"
    /\ UNCHANGED <<phase, game_path, violacli_path, tmp_dir, listVars, log_tail, jobs, fs>>

edit_violacli_path(p, oks) ==
    /\ UiReady
    /\ LET st == SaveEach(SaveStart,
                    <<CurrentConfig(game_path, cfgbin_path, p, tmp_dir,
                                    mod_entries)>>, oks)
       IN /\ violacli_path' = p
          /\ config_file' = st.file
          /\ after_queue' = st.queue
          /\ dialog' = st.dialog
    /\ raised' = "none"
    /\ UNCHANGED <<phase, game_path, cfgbin_path, tmp_dir, listVars, log_tail, jobs, fs>>

\* ------------------------------------------------------------ startup
\* MainWindow.__init__ from _setup_callbacks on: the traces are installed,
\* the configuration is loaded (each path write saves), the mods are
\* scanned, the work directory is emptied.
Startup(disk, oks) ==
    /\ phase = "constructing"
    /\ LET c == config_file
           st4 == SaveEach(SaveStart,
                    <<CurrentConfig(c.game_path, cfgbin_path, violacli_path,
                                    tmp_dir, mod_entries),
                      CurrentConfig(c.game_path, c.cfgbin_path, violacli_path,
                                    tmp_dir, mod_entries),
                      CurrentConfig(c.game_path, c.cfgbin_path, c.violacli_path,
                                    tmp_dir, mod_entries),
                      CurrentConfig(c.game_path, c.cfgbin_path, c.violacli_path,
                                    c.tmp_dir, mod_entries)>>,
                    SubSeq(oks, 1, 4))
           loaded == [st4 EXCEPT !.queue =
                         PostLog(st4.queue, "Configuration loaded", "info")]
           entries == ScanResult(c.mods, mod_entries, disk)
           st == SaveConfig(loaded,
                            CurrentConfig(c.game_path, c.cfgbin_path,
                                          c.violacli_path, c.tmp_dir, entries),
                            oks[5])
       IN /\ game_path' = c.game_path
          /\ cfgbin_path' = c.cfgbin_path
          /\ violacli_path' = c.violacli_path
          /\ tmp_dir' = c.tmp_dir
          /\ saved_mods' = c.mods
          /\ mod_entries' = entries
          /\ traces' = RegisterTraces(FreshTraces(entries))
          /\ selection' = SetModEntries(entries)
          /\ config_file' = st.file
          /\ after_queue' = st.queue
          /\ dialog' = st.dialog
    /\ fs' = [fs EXCEPT !.tmp_root = TRUE, !.tmp_data = <<>>]
    /\ raised' = "none"
    /\ phase' = "mainloop"
    /\ UNCHANGED <<log_tail, jobs>>

\* ------------------------------------------------------------ apply
\* ViolaIntegration.is_running(): a job is inside one of the collaborator
\* calls (merge, copy, cleanup).
InCall == {"merge", "copy", "cleanup"}
is_running == \E j \in DOMAIN jobs : jobs[j].pc \in InCall

\* A worker thread exists and has not ended.
Alive(j) == jobs[j].pc # "done"

NewJob(violacli, cfgbin, mod_paths, tmp_root, gp) ==
    [pc |-> "start", violacli |-> violacli, cfgbin |-> cfgbin,
     mod_paths |-> mod_paths, tmp_root |-> tmp_root, game_path |-> gp,
     calls |-> <<>>, returns |-> <<>>, stop_requested |-> FALSE]

\* Which check of MainWindow.apply_mods refuses, if any.
ApplyRefusalNoToolCheck ==
    LET gp == Strip(game_path)
        cfgbin == Strip(cfgbin_path)
    IN IF \E j \in DOMAIN jobs : jobs[j].pc \in InCall
       THEN Box("info", "A process is already running.")
       ELSE IF gp = "" \/ ~IsDir(gp)
       THEN Box("error", "Invalid game path.")
       ELSE IF cfgbin = "" \/ ~Exists(cfgbin)
       THEN Box("error", "Invalid cpk_list.cfg.bin path.")
       ELSE NoDialog

ApplyRefusal ==
    LET gp == Strip(game_path)
        cfgbin == Strip(cfgbin_path)
        violacli == Strip(violacli_path)
    IN IF is_running
       THEN Box("info", "A process is already running.")
       ELSE IF gp = "" \/ ~IsDir(gp)
       THEN Box("error", "Invalid game path.")
       ELSE IF cfgbin = "" \/ ~Exists(cfgbin)
       THEN Box("error", "Invalid cpk_list.cfg.bin path.")
       ELSE IF violacli = "" \/ ~Exists(violacli)
       THEN Box("error", "violacli.exe not found. Please configure its path.")
       ELSE NoDialog

\* enabled_mods of apply_mods: what the worker thread is started with.
ThreadArgsAll(entries) == [i \in DOMAIN entries |-> entries[i].path]

ThreadArgs(entries) == GetEnabledMods(entries)

\* MainWindow.apply_mods.  io is what the file system answers to the
\* handler's own calls (makedirs, copy2): "ok" or "OSError".
apply_mods(io) ==
    /\ UiReady
    /\ LET gp == Strip(game_path)
           cfgbin == Strip(cfgbin_path)
           violacli == Strip(violacli_path)
           enabled_mods == ThreadArgs(mod_entries)
           tmp_root == Abspath(tmp_dir)
       IN IF ApplyRefusal # NoDialog
          THEN /\ dialog' = ApplyRefusal
               /\ raised' = "none"
               /\ UNCHANGED <<jobs, fs, after_queue>>
          ELSE IF enabled_mods = <<>>
          THEN /\ dialog' = NoDialog
               /\ raised' = "none"
               /\ IF io = "ok"
                  THEN /\ fs' = [fs EXCEPT !.game_data = <<"base", cfgbin>>]
                       /\ after_queue' = PostLog(after_queue,
                              "CHANGES APPLIED!! No mods selected.", "success")
                  ELSE /\ fs' = fs
                       /\ after_queue' = PostLog(after_queue,
                              "Error applying changes", "error")
               /\ UNCHANGED jobs
          ELSE /\ dialog' = NoDialog
               /\ IF io = "ok"
                  THEN /\ Len(jobs) < MaxJobs
                       /\ fs' = [fs EXCEPT !.tmp_root = TRUE]
                       /\ raised' = "none"
                       /\ jobs' = Append(jobs, NewJob(violacli, cfgbin,
                                            enabled_mods, tmp_root, gp))
                  ELSE /\ raised' = "OSError"
                       /\ UNCHANGED <<jobs, fs>>
               /\ UNCHANGED after_queue
    /\ UNCHANGED <<phase, pathVars, listVars, config_file, log_tail>>

\* ------------------------------------------------------------ worker
\* MainWindow._run_merge_and_copy, one step per collaborator call.
WorkerFrame ==
    UNCHANGED <<phase, pathVars, listVars, config_file, dialog, raised>>

\* MainWindow._log: the append to the log panel is posted to the event
\* loop, the panel itself is not touched.
MainWindow_log_direct(text, level) ==
    /\ log_tail' = LastRecord(LogPanelLog(log_tail, <<text>>, level))
    /\ after_queue' = after_queue

MainWindow_log(text, level) ==
    /\ after_queue' = PostLog(after_queue, text, level)
    /\ log_tail' = log_tail

JobEndsTwice(j, out, text, level) ==
    /\ Len(after_queue) <= MaxBacklog
    /\ jobs' = [jobs EXCEPT ![j].pc = "done", ![j].returns = Append(@, out)]
    /\ after_queue' = PostLog(PostLog(after_queue, text, level), text, level)
    /\ log_tail' = log_tail

\* The job logs its last record and the thread function returns.
JobEnds(j, out, text, level) ==
    /\ Len(after_queue) <= MaxBacklog
    /\ jobs' = [jobs EXCEPT ![j].pc = "done", ![j].returns = Append(@, out)]
    /\ MainWindow_log(text, level)

JobCalls(j, out, pc, call) ==
    jobs' = [jobs EXCEPT ![j].pc = pc, ![j].returns = Append(@, out),
                         ![j].calls = Append(@, call)]

\* The arguments of the collaborator calls are the arguments the thread was
\* started with.
MergeCallLive(j) ==
    <<"merge_mods", Strip(violacli_path), Strip(cfgbin_path),
      GetEnabledMods(mod_entries), Abspath(tmp_dir)>>

MergeCall(j) ==
    <<"merge_mods", jobs[j].violacli, jobs[j].cfgbin, jobs[j].mod_paths,
      jobs[j].tmp_root>>
CopyCall(j) ==
    <<"copy_merged_files", Join(jobs[j].tmp_root, "data"),
      Join(jobs[j].game_path, "data")>>
CleanupCall(j) == <<"cleanup_temp", Join(jobs[j].tmp_root, "data")>>

\* The thread starts running: viola.merge_mods is called.
worker_calls_merge(j) ==
    /\ jobs[j].pc = "start"
    /\ jobs' = [jobs EXCEPT ![j].pc = "merge",
                            ![j].calls = Append(@, MergeCall(j))]
    /\ UNCHANGED <<logVars, fs>>
    /\ WorkerFrame

\* merge_mods returns or raises; on success copy_merged_files is called.
worker_merge_returns_unchecked(j, out) ==
    /\ jobs[j].pc = "merge"
    /\ IF out = "raise"
       THEN /\ JobEnds(j, out, "Unexpected error", "error")
            /\ UNCHANGED fs
       ELSE /\ fs' = [fs EXCEPT !.tmp_data = <<jobs[j].mod_paths>>]
            /\ JobCalls(j, out, "copy", CopyCall(j))
            /\ UNCHANGED logVars
    /\ WorkerFrame

worker_merge_returns_retrying(j, out) ==
    /\ jobs[j].pc = "merge"
    /\ CASE out = "ok" ->
              /\ fs' = [fs EXCEPT !.tmp_data = <<jobs[j].mod_paths>>]
              /\ JobCalls(j, out, "copy", CopyCall(j))
              /\ UNCHANGED logVars
         [] out = "fail" ->
              /\ Len(jobs[j].calls) < 2
              /\ JobCalls(j, out, "merge", MergeCall(j))
              /\ UNCHANGED <<logVars, fs>>
         [] OTHER ->
              /\ JobEnds(j, out, "Unexpected error", "error")
              /\ UNCHANGED fs
    /\ WorkerFrame

worker_merge_returns(j, out) ==
    /\ jobs[j].pc = "merge"
    /\ CASE out = "ok" ->
              /\ fs' = [fs EXCEPT !.tmp_data = <<jobs[j].mod_paths>>]
              /\ JobCalls(j, out, "copy", CopyCall(j))
              /\ UNCHANGED logVars
         [] out = "fail" ->
              /\ JobEnds(j, out, "violacli returned error; aborting copy.",
                         "error")
              /\ UNCHANGED fs
         [] OTHER ->
              /\ JobEnds(j, out, "Unexpected error", "error")
              /\ UNCHANGED fs
    /\ WorkerFrame

\* copy_merged_files returns or raises; on success cleanup_temp is called.
worker_copy_returns_cleaning(j, out) ==
    /\ jobs[j].pc = "copy"
    /\ CASE out = "ok" ->
              /\ fs' = [fs EXCEPT !.game_data = <<"merged", fs.tmp_data>>]
              /\ JobCalls(j, out, "cleanup", CleanupCall(j))
              /\ UNCHANGED logVars
         [] out = "fail" ->
              /\ JobCalls(j, out, "cleanup", CleanupCall(j))
              /\ UNCHANGED <<logVars, fs>>
         [] OTHER ->
              /\ JobEnds(j, out, "Unexpected error", "error")
              /\ UNCHANGED fs
    /\ WorkerFrame

worker_copy_returns(j, out) ==
    /\ jobs[j].pc = "copy"
    /\ CASE out = "ok" ->
              /\ fs' = [fs EXCEPT !.game_data = <<"merged", fs.tmp_data>>]
              /\ JobCalls(j, out, "cleanup", CleanupCall(j))
              /\ UNCHANGED logVars
         [] out = "fail" ->
              /\ JobEnds(j, out, "Failed to copy merged files.", "error")
              /\ UNCHANGED fs
         [] OTHER ->
              /\ JobEnds(j, out, "Unexpected error", "error")
              /\ UNCHANGED fs
    /\ WorkerFrame

\* cleanup_temp returns (its result is not looked at) or raises.
worker_cleanup_returns_uncaught(j, out) ==
    /\ jobs[j].pc = "cleanup"
    /\ CASE out = "ok" ->
              /\ fs' = [fs EXCEPT !.tmp_data = <<>>]
              /\ JobEnds(j, out, "MODS APPLIED!!", "success")
         [] out = "fail" ->
              /\ JobEnds(j, out, "MODS APPLIED!!", "success")
              /\ UNCHANGED fs
         [] OTHER ->
              /\ Len(after_queue) <= MaxBacklog
              /\ jobs' = [jobs EXCEPT ![j].pc = "done",
                                      ![j].returns = Append(@, out)]
              /\ UNCHANGED <<logVars, fs>>
    /\ WorkerFrame

worker_cleanup_returns(j, out) ==
    /\ jobs[j].pc = "cleanup"
    /\ CASE out = "ok" ->
              /\ fs' = [fs EXCEPT !.tmp_data = <<>>]
              /\ JobEnds(j, out, "MODS APPLIED!!", "success")
         [] out = "fail" ->
              /\ JobEnds(j, out, "MODS APPLIED!!", "success")
              /\ UNCHANGED fs
         [] OTHER ->
              /\ JobEnds(j, out, "Unexpected error", "error")
              /\ UNCHANGED fs
    /\ WorkerFrame

\* The merge collaborator reports through the log callback it was given at
\* construction, which is MainWindow._log.
viola_logs(j) ==
    /\ jobs[j].pc \in InCall
    /\ Len(after_queue) <= MaxBacklog
    /\ MainWindow_log("violacli output", "info")
    /\ UNCHANGED <<jobs, fs>>
    /\ WorkerFrame

\* ------------------------------------------------------------ exit
EXIT_PROMPT == "There is an operation in progress. Are you sure you want to exit?"

\* ViolaIntegration.stop(): the operation in progress is asked to stop.
ViolaStop(js) ==
    [j \in DOMAIN js |->
        IF js[j].pc \in InCall THEN [js[j] EXCEPT !.stop_requested = TRUE]
        ELSE js[j]]

\* What MainWindow._on_close does, in order, given what is_running() and the
\* user (answer: yes to the prompt) tell it.
CloseSteps(running, answer) ==
    IF running
    THEN IF answer THEN <<"askyesno", "stop", "save", "destroy">>
         ELSE <<"askyesno">>
    ELSE <<"save", "destroy">>

Does(steps, s) == \E i \in DOMAIN steps : steps[i] = s

\* MainWindow._on_close (WM_DELETE_WINDOW).  After destroy the main loop
\* ends: phase "closed".
on_close(answer, oks) ==
    /\ UiReady
    /\ LET steps == CloseSteps(is_running, answer)
           asked == IF Does(steps, "askyesno")
                    THEN Box("askyesno", EXIT_PROMPT) ELSE NoDialog
           start == [SaveStart EXCEPT !.dialog = asked]
           st == IF Does(steps, "save")
                 THEN SaveEach(start,
                               <<CurrentConfig(game_path, cfgbin_path,
                                     violacli_path, tmp_dir, mod_entries)>>, oks)
                 ELSE start
       IN /\ jobs' = IF Does(steps, "stop") THEN ViolaStop(jobs) ELSE jobs
          /\ config_file' = st.file
          /\ after_queue' = st.queue
          /\ dialog' = st.dialog
          /\ phase' = IF Does(steps, "destroy") THEN "closed" ELSE phase
    /\ raised' = "none"
    /\ UNCHANGED <<pathVars, listVars, log_tail, fs>>

\* ------------------------------------------------------------ observers
\* The calls the last handler made, in order.
Traced(op, steps) ==
    /\ last_op' = op
    /\ hist' = steps
    /\ UNCHANGED appended

Observe(op) == last_op' = op /\ UNCHANGED <<hist, appended>>

Silent == UNCHANGED <<last_op, hist, appended>>

Remember(op) ==
    LET r == [op |-> op, entries |-> mod_entries, selection |-> selection]
    IN /\ last_op' = op
       /\ hist' = IF Len(hist) < 2 THEN Append(hist, r) ELSE <<hist[2], r>>
       /\ UNCHANGED appended

\* One more call of LogPanel.log observed.
Counted(op) ==
    /\ last_op' = op
    /\ appended' = appended + 1
    /\ hist' = Append(hist, [op |-> op, entries |-> mod_entries,
                             selection |-> selection])

\* The list and the paths as they are when apply_mods starts a thread.
Accepting(op) ==
    /\ last_op' = op
    /\ hist' = IF Len(jobs') > Len(jobs)
               THEN Append(hist, [entries |-> mod_entries,
                                  game_path |-> game_path,
                                  cfgbin_path |-> cfgbin_path,
                                  violacli_path |-> violacli_path,
                                  tmp_dir |-> tmp_dir])
               ELSE hist
    /\ UNCHANGED appended

\* ------------------------------------------------------------ initial states
SavedLists(n) ==
    UNION {{[i \in 1..Len(s) |-> [name |-> s[i], enabled |-> f[i]]] :
                f \in [1..Len(s) -> BOOLEAN]} : s \in SeqsNoDup(Mods, n)}

EntryLists(n) ==
    {[i \in DOMAIN l |-> ModEntry(l[i].name, l[i].enabled)] : l \in SavedLists(n)}

FirstRunConfig(mods) ==
    [game_path |-> "", cfgbin_path |-> "", violacli_path |-> "",
     tmp_dir |-> DEFAULT_TMP_DIR, mods |-> mods]

\* MainWindow.__init__ up to _build_ui: the fields as constructed.
Constructed ==
    /\ phase = "constructing"
    /\ game_path = ""
    /\ cfgbin_path = ""
    /\ violacli_path = ""
    /\ tmp_dir = DEFAULT_TMP_DIR
    /\ mod_entries = <<>>
    /\ saved_mods = <<>>
    /\ selection = NoSelection
    /\ traces = FreshTraces(<<>>)
    /\ appended = 0
    /\ after_queue = <<>>
    /\ log_tail = <<>>
    /\ dialog = NoDialog
    /\ raised = "none"
    /\ jobs = <<>>
    /\ fs = [tmp_root |-> FALSE, tmp_data |-> <<>>, game_data |-> <<"original">>]
    /\ last_op = "none"
    /\ hist = <<>>

InitList ==
    /\ Constructed
    /\ config_file \in {FirstRunConfig(m) : m \in SavedLists(MaxSaved)}

NextList ==
    \/ \E d \in SUBSET Mods : Startup(d, AllOk(5)) /\ Observe("startup")
    \/ \E i \in 0..(NumMods - 1) : select_row(i) /\ Observe("select_row")
    \/ \E d \in SUBSET Mods : scan_mods(d, AllOk(1)) /\ Observe("scan_mods")
    \/ move_up(AllOk(1)) /\ Observe("move_up")
    \/ move_down(AllOk(1)) /\ Observe("move_down")
    \/ toggle(AllOk(1)) /\ Observe("toggle")
    \/ enable_all(AllOk(NumMods + 1)) /\ Observe("enable_all")
    \/ disable_all(AllOk(NumMods + 1)) /\ Observe("disable_all")
    \/ RunPosted /\ Silent

SpecList == InitList /\ [][NextList]_vars


\* The main loop with the mod list as any earlier scans, moves and toggles
\* can have left it, a row selected or none, nothing posted.
InMainLoop(entries, sel) ==
    /\ phase = "mainloop"
    /\ game_path = ""
    /\ cfgbin_path = ""
    /\ violacli_path = ""
    /\ tmp_dir = DEFAULT_TMP_DIR
    /\ mod_entries = entries
    /\ saved_mods = <<>>
    /\ selection = sel
    /\ traces = RegisterTraces(FreshTraces(entries))
    /\ appended = 0
    /\ config_file = CurrentConfig("", "", "", DEFAULT_TMP_DIR, entries)
    /\ after_queue = <<>>
    /\ log_tail = <<>>
    /\ dialog = NoDialog
    /\ raised = "none"
    /\ jobs = <<>>
    /\ fs = [tmp_root |-> TRUE, tmp_data |-> <<>>, game_data |-> <<"original">>]
    /\ last_op = "none"
    /\ hist = <<>>

InitMove ==
    \E entries \in EntryLists(NumMods) :
        \E sel \in {NoSelection} \cup {{i} : i \in 0..(Len(entries) - 1)} :
            InMainLoop(entries, sel)

NextMove ==
    \/ \E i \in 0..(NumMods - 1) : select_row(i) /\ Remember("select_row")
    \/ move_up(AllOk(1)) /\ Remember("move_up")
    \/ move_down(AllOk(1)) /\ Remember("move_down")
    \/ RunPosted /\ Silent

SpecMove == InitMove /\ [][NextMove]_vars

\* move_up and move_down as functions of the list and of whatever index
\* get_selected_index() hands them.
InitMoveAny ==
    \E entries \in EntryLists(NumMods) :
        \E sel \in {NoSelection} \cup {{i} : i \in (-MaxIdx)..MaxIdx} :
            InMainLoop(entries, sel)

NextMoveAny ==
    \/ move_up(AllOk(1)) /\ Observe("move_up")
    \/ move_down(AllOk(1)) /\ Observe("move_down")
    \/ RunPosted /\ Silent

SpecMoveAny == InitMoveAny /\ [][NextMoveAny]_vars

\* The configuration file of an installed copy: any paths, the mods on disk
\* saved in any order with any flags.
InitApply ==
    /\ Constructed
    /\ config_file \in
         {[game_path |-> g, cfgbin_path |-> c, violacli_path |-> v,
           tmp_dir |-> DEFAULT_TMP_DIR, mods |-> m] :
              g \in GamePaths, c \in CfgbinPaths, v \in ViolacliPaths,
              m \in {l \in SavedLists(NumMods) : Len(l) = NumMods}}

JobIds == 1..MaxJobs
Outcomes == {"ok", "fail", "raise"}

NextApply ==
    \/ Startup(Mods, AllOk(5)) /\ Observe("startup")
    \/ \E io \in {"ok", "OSError"} : apply_mods(io) /\ Observe("apply_mods")
    \/ \E j \in DOMAIN jobs : worker_calls_merge(j) /\ Silent
    \/ \E j \in DOMAIN jobs, out \in Outcomes : worker_merge_returns(j, out) /\ Silent
    \/ \E j \in DOMAIN jobs, out \in Outcomes : worker_copy_returns(j, out) /\ Silent
    \/ \E j \in DOMAIN jobs, out \in Outcomes : worker_cleanup_returns(j, out) /\ Silent
    \/ RunPosted /\ Silent

SpecApply == InitApply /\ [][NextApply]_vars


\* The log panel alone.  The n-th message logged is numbered n; it has h
\* lines (h - 1 line separators), line k of it being <<n, k, h>>.
Message(n, h) == [k \in 1..h |-> <<n, k, h>>]

\* The widget after the calls of LogPanel.log numbered lo..hi, in this
\* order, with messages of h lines each.
RECURSIVE FilledFrom(_, _, _, _)
FilledFrom(widget, h, lo, hi) ==
    IF lo > hi THEN widget
    ELSE IF lo = hi THEN LogPanelLog(widget, Message(lo, h), "info")
    ELSE LET mid == (lo + hi) \div 2
             half == FilledFrom(widget, h, lo, mid)
         IN IF Len(half) >= 0 THEN FilledFrom(half, h, mid + 1, hi) ELSE <<>>

\* The widget after n calls of LogPanel.log with messages of h lines.
Filled(h, n) == FilledFrom(<<>>, h, 1, n)

\* Numbers of earlier calls: none, or as many as bring the widget next to
\* MAX_LOG_LINES.
PrefillCounts(h) == {0, (MAX_LOG_LINES \div h) - 1, MAX_LOG_LINES \div h}

Logging(widget, n) ==
    /\ phase = "mainloop"
    /\ game_path = ""
    /\ cfgbin_path = ""
    /\ violacli_path = ""
    /\ tmp_dir = DEFAULT_TMP_DIR
    /\ mod_entries = <<>>
    /\ saved_mods = <<>>
    /\ selection = NoSelection
    /\ traces = FreshTraces(<<>>)
    /\ config_file = CurrentConfig("", "", "", DEFAULT_TMP_DIR, <<>>)
    /\ after_queue = <<>>
    /\ log_tail = widget
    /\ dialog = NoDialog
    /\ raised = "none"
    /\ jobs = <<>>
    /\ fs = [tmp_root |-> TRUE, tmp_data |-> <<>>, game_data |-> <<"original">>]
    /\ last_op = "none"
    /\ hist = <<>>
    /\ appended = n

InitLog ==
    \E h \in 1..MaxMsgLines :
        \E n \in PrefillCounts(h) : Logging(Filled(h, n), n)

NextLog ==
    \E h \in 1..MaxMsgLines :
        /\ Len(hist) < MaxAppends
        /\ log(Message(appended + 1, h), "info")
        /\ Counted("log")

SpecLog == InitLog /\ [][NextLog]_vars


\* The jobs of an installed copy with valid paths, the mods on disk saved in
\* folder order, the first one enabled.
ValidConfig(mods) ==
    [game_path |-> " C:/game ", cfgbin_path |-> "C:/cpk_list.cfg.bin",
     violacli_path |-> "C:/violacli.exe", tmp_dir |-> DEFAULT_TMP_DIR,
     mods |-> mods]

InitJob ==
    /\ Constructed
    /\ config_file \in
         {ValidConfig(m) : m \in {l \in SavedLists(NumMods) :
                                    /\ Len(l) = NumMods
                                    /\ l[1].enabled
                                    /\ \A i \in DOMAIN l : l[i].name = i}}

NextJob ==
    \/ Startup(Mods, AllOk(5)) /\ Observe("startup")
    \/ \E io \in {"ok", "OSError"} : apply_mods(io) /\ Observe("apply_mods")
    \/ \E j \in DOMAIN jobs : worker_calls_merge(j) /\ Silent
    \/ \E j \in DOMAIN jobs, out \in Outcomes : worker_merge_returns(j, out) /\ Silent
    \/ \E j \in DOMAIN jobs, out \in Outcomes : worker_copy_returns(j, out) /\ Silent
    \/ \E j \in DOMAIN jobs, out \in Outcomes : worker_cleanup_returns(j, out) /\ Silent
    \/ \E j \in DOMAIN jobs : viola_logs(j) /\ Silent
    \/ RunPosted /\ Silent

SpecJob == InitJob /\ [][NextJob]_vars

\* Every handler that changes the list or a path, the store answering every
\* save with success.
ScanSets == {{}, Mods}
TypedGamePaths == {"", " C:/game "}
TypedCfgbinPaths == {"  ", "C:/cpk_list.cfg.bin"}
TypedViolacliPaths == {"", "C:/violacli.exe"}

\* A first run, or a configuration that saved the last mod folder enabled.
InitSave ==
    /\ Constructed
    /\ config_file \in
         {FirstRunConfig(<<>>),
          FirstRunConfig(<<[name |-> NumMods, enabled |-> TRUE]>>)}

NextSave ==
    \/ Startup(Mods, AllOk(5)) /\ Observe("startup")
    \/ \E i \in 0..(NumMods - 1) : select_row(i) /\ Observe("select_row")
    \/ \E d \in ScanSets : scan_mods(d, AllOk(1)) /\ Observe("scan_mods")
    \/ move_up(AllOk(1)) /\ Observe("move_up")
    \/ move_down(AllOk(1)) /\ Observe("move_down")
    \/ toggle(AllOk(1)) /\ Observe("toggle")
    \/ enable_all(AllOk(NumMods + 1)) /\ Observe("enable_all")
    \/ disable_all(AllOk(NumMods + 1)) /\ Observe("disable_all")
    \/ \E p \in TypedGamePaths : edit_game_path(p, AllOk(1)) /\ Observe("edit_game_path")
    \/ \E p \in TypedCfgbinPaths : edit_cfgbin_path(p, AllOk(1)) /\ Observe("edit_cfgbin_path")
    \/ \E p \in TypedViolacliPaths : edit_violacli_path(p, AllOk(1)) /\ Observe("edit_violacli_path")
    \/ RunPosted /\ Silent

SpecSave == InitSave /\ [][NextSave]_vars

\* The handlers that save, the store answering each save with success or
\* failure; the list as a scan of all folders left it, flags as toggled.
Answers(n) == [1..n -> BOOLEAN]

InitStore ==
    \E entries \in {l \in EntryLists(NumMods) :
                       /\ Len(l) = NumMods
                       /\ \A i \in DOMAIN l : l[i].name = i} :
        \E sel \in {NoSelection} \cup {{i} : i \in 0..(Len(entries) - 1)} :
            InMainLoop(entries, sel)

NextStore ==
    \/ \E i \in 0..(NumMods - 1) : select_row(i) /\ Observe("select_row")
    \/ \E oks \in Answers(1) : toggle(oks) /\ Observe("toggle")
    \/ \E oks \in Answers(NumMods + 1) : enable_all(oks) /\ Observe("enable_all")
    \/ \E oks \in Answers(NumMods + 1) : disable_all(oks) /\ Observe("disable_all")
    \/ RunPosted /\ Silent

SpecStore == InitStore /\ [][NextStore]_vars


\* The jobs with their threads scheduled: a thread that can take its next
\* step (its collaborator call returns or raises) does take it, and the
\* event loop runs what was posted.  The steps that post wait in the model
\* while MaxBacklog callbacks are pending, which is why the threads get
\* strong fairness.
WorkerRuns(j) ==
    /\ j \in DOMAIN jobs
    /\ \/ worker_calls_merge(j)
       \/ \E out \in Outcomes :
             \/ worker_merge_returns(j, out)
             \/ worker_copy_returns(j, out)
             \/ worker_cleanup_returns(j, out)
    /\ Silent

NextJobFair ==
    \/ Startup(Mods, AllOk(5)) /\ Observe("startup")
    \/ apply_mods("ok") /\ Observe("apply_mods")
    \/ \E j \in JobIds : WorkerRuns(j)
    \/ RunPosted /\ Silent

SpecJobFair ==
    /\ InitJob
    /\ [][NextJobFair]_vars
    /\ WF_vars(RunPosted /\ Silent)
    /\ \A j \in JobIds : SF_vars(WorkerRuns(j))

\* One job with the user going on in the window while it runs: rows
\* selected, entries moved and toggled, the folder rescanned, paths edited.
InFlight == \E j \in DOMAIN jobs : Alive(j)

NextSnap ==
    \/ Startup(Mods, AllOk(5)) /\ Observe("startup")
    \/ jobs = <<>> /\ apply_mods("ok") /\ Accepting("apply_mods")
    \/ \E j \in JobIds : WorkerRuns(j)
    \/ \E i \in 0..(NumMods - 1) : InFlight /\ select_row(i) /\ Silent
    \/ InFlight /\ move_down(AllOk(1)) /\ Silent
    \/ InFlight /\ toggle(AllOk(1)) /\ Silent
    \/ \E d \in ScanSets : InFlight /\ scan_mods(d, AllOk(1)) /\ Silent
    \/ \E p \in TypedGamePaths : InFlight /\ edit_game_path(p, AllOk(1)) /\ Silent
    \/ \E p \in TypedCfgbinPaths : InFlight /\ edit_cfgbin_path(p, AllOk(1)) /\ Silent
    \/ \E p \in TypedViolacliPaths :
          InFlight /\ edit_violacli_path(p, AllOk(1)) /\ Silent
    \/ RunPosted /\ Silent

SpecSnap == InitJob /\ [][NextSnap]_vars

\* Startup on the configuration file of an earlier session, the store
\* answering each save of the startup with success or failure.
SavedTmpDirs == {DEFAULT_TMP_DIR, "work"}

InitBoot ==
    /\ Constructed
    /\ config_file \in
         {[game_path |-> g, cfgbin_path |-> c, violacli_path |-> v,
           tmp_dir |-> td, mods |-> m] :
              g \in TypedGamePaths, c \in TypedCfgbinPaths,
              v \in TypedViolacliPaths, td \in SavedTmpDirs,
              m \in SavedLists(MaxSaved)}

NextBoot ==
    \/ \E d \in SUBSET Mods, oks \in Answers(5) :
          Startup(d, oks) /\ Observe("startup")
    \/ RunPosted /\ Silent

SpecBoot == InitBoot /\ [][NextBoot]_vars

\* Closing the window at any moment of the jobs; once the window is
\* destroyed the main loop has ended and the process with its daemon
\* threads exits.
Running == phase = "mainloop"

NextClose ==
    \/ Startup(Mods, AllOk(5)) /\ Observe("startup")
    \/ apply_mods("ok") /\ Observe("apply_mods")
    \/ \E j \in DOMAIN jobs : Running /\ worker_calls_merge(j) /\ Silent
    \/ \E j \in DOMAIN jobs, out \in Outcomes :
          Running /\ worker_merge_returns(j, out) /\ Silent
    \/ \E j \in DOMAIN jobs, out \in Outcomes :
          Running /\ worker_copy_returns(j, out) /\ Silent
    \/ \E j \in DOMAIN jobs, out \in Outcomes :
          Running /\ worker_cleanup_returns(j, out) /\ Silent
    \/ \E answer \in BOOLEAN, oks \in Answers(1) :
          on_close(answer, oks) /\ Traced("on_close", CloseSteps(is_running, answer))
    \/ RunPosted /\ Silent

SpecClose == InitJob /\ [][NextClose]_vars

\* ================================================================ claims
AliveJobs == {j \in DOMAIN jobs : Alive(j)}
CallNames(j) == [i \in DOMAIN jobs[j].calls |-> jobs[j].calls[i][1]]
CallOrder == <<"merge_mods", "copy_merged_files", "cleanup_temp">>
MergeCount(j) ==
    Cardinality({i \in DOMAIN jobs[j].calls : jobs[j].calls[i][1] = "merge_mods"})
ApplyStep == \E io \in {"ok", "OSError"} : apply_mods(io)

\* C1: in every reachable state at most one background job (a started
\* worker that has not ended, whatever its phase) is in flight.
C1_AtMostOneJobInFlight == Cardinality(AliveJobs) <= 1

\* C2: an apply request issued while a job is in flight is rejected: it
\* starts no worker, invokes nothing, touches no file, and changes no list,
\* path or config state.
C2_ApplyWhileInFlightRejected ==
    [][(ApplyStep /\ AliveJobs # {}) =>
          UNCHANGED <<jobs, fs, after_queue, pathVars, listVars, config_file>>]_vars

\* C3: within one job the collaborator calls are made one after the other in
\* the order merge, copy, cleanup; copy only after merge returned success,
\* cleanup only after copy returned success, so a failed merge is followed by
\* neither and a failed copy by no cleanup.
C3_CallsSequential ==
    \A j \in DOMAIN jobs :
        /\ Len(jobs[j].calls) <= 3
        /\ CallNames(j) = SubSeq(CallOrder, 1, Len(jobs[j].calls))
        /\ Len(jobs[j].returns) <= Len(jobs[j].calls)
        /\ Len(jobs[j].calls) <= Len(jobs[j].returns) + 1
        /\ Len(jobs[j].calls) >= 2 => jobs[j].returns[1] = "ok"
        /\ Len(jobs[j].calls) >= 3 => jobs[j].returns[2] = "ok"

C3_Witness ==
    \E j, k \in DOMAIN jobs :
        /\ CallNames(j) = CallOrder
        /\ jobs[k].pc = "done"
        /\ jobs[k].returns = <<"ok", "fail">>

GamePathBad == Strip(game_path) = "" \/ Strip(game_path) \notin FsDirs
CfgbinPathBad ==
    Strip(cfgbin_path) = "" \/ Strip(cfgbin_path) \notin FsDirs \cup FsFiles
ViolacliPathBad ==
    Strip(violacli_path) = "" \/ Strip(violacli_path) \notin FsDirs \cup FsFiles
SomePathBad == GamePathBad \/ CfgbinPathBad \/ ViolacliPathBad
FirstPathError ==
    IF GamePathBad THEN Box("error", "Invalid game path.")
    ELSE IF CfgbinPathBad THEN Box("error", "Invalid cpk_list.cfg.bin path.")
    ELSE Box("error", "violacli.exe not found. Please configure its path.")

C5_InvalidPathRefused ==
    [][(ApplyStep /\ SomePathBad) =>
          /\ UNCHANGED <<jobs, fs, after_queue, pathVars, listVars, config_file>>
          /\ raised' = "none"
          /\ dialog' = IF is_running
                       THEN Box("info", "A process is already running.")
                       ELSE FirstPathError]_vars

C5_Witness ==
    /\ last_op = "apply_mods"
    /\ ~GamePathBad /\ ~CfgbinPathBad /\ ViolacliPathBad
    /\ dialog = Box("error", "violacli.exe not found. Please configure its path.")
    /\ jobs = <<>>
    /\ fs.game_data = <<"original">>

\* C6: the mod paths handed to the merge are exactly the enabled entries of
\* the list as it is when apply is accepted, in list order: every enabled
\* entry's path, no disabled entry's, in the entries' relative order.
PosOfPath(entries, p) == CHOOSE i \in DOMAIN entries : entries[i].path = p

IsEnabledInOrder(paths, entries) ==
    /\ {paths[k] : k \in DOMAIN paths} =
          {entries[i].path : i \in {n \in DOMAIN entries : entries[n].enabled}}
    /\ \A k, l \in DOMAIN paths :
          k < l => PosOfPath(entries, paths[k]) < PosOfPath(entries, paths[l])

C6_MergeGetsEnabledInOrder ==
    /\ [][(ApplyStep /\ Len(jobs') > Len(jobs)) =>
             IsEnabledInOrder(jobs'[Len(jobs')].mod_paths, mod_entries)]_vars
    /\ [](\A j \in DOMAIN jobs :
             jobs[j].calls # <<>> => jobs[j].calls[1][4] = jobs[j].mod_paths)

C6_Witness ==
    \E j \in DOMAIN jobs :
        /\ jobs[j].calls # <<>>
        /\ jobs[j].calls[1][4] = <<ModPath(2), ModPath(1)>>
        /\ Len(mod_entries) = NumMods


\* C7: every scan, the one at startup (previous list: the saved one of the
\* loaded configuration) and any later one (previous list: the current
\* one), keeps the entries still discovered in their previous relative order
\* with their previous flag, appends the newly discovered ones after them
\* with enabled = FALSE, and drops the rest.
PosOfName(prev, n) == CHOOSE i \in DOMAIN prev : prev[i].name = n

Reconciled(prev, result, disk) ==
    LET known == {prev[i].name : i \in DOMAIN prev}
    IN /\ Names(result) = disk
       /\ Len(result) = Cardinality(disk)
       /\ \A i \in DOMAIN result :
             IF result[i].name \in known
             THEN result[i].enabled = prev[PosOfName(prev, result[i].name)].enabled
             ELSE /\ ~result[i].enabled
                  /\ \A j \in DOMAIN result :
                        result[j].name \in known => j < i
       /\ \A i, j \in DOMAIN result :
             (i < j /\ result[i].name \in known /\ result[j].name \in known) =>
                PosOfName(prev, result[i].name) < PosOfName(prev, result[j].name)

C7_ScanReconciles ==
    [][\A d \in SUBSET Mods :
          /\ scan_mods(d, AllOk(1)) =>
                Reconciled(SavedOf(mod_entries), mod_entries', d)
          /\ Startup(d, AllOk(5)) =>
                Reconciled(config_file.mods, mod_entries', d)]_vars

\* C8: a scan's result is a fixed point of the scan: scanning again with the
\* same discovered set yields the identical list, order and flags.
C8_ScanIdempotent ==
    [][\A d \in SUBSET Mods :
          (scan_mods(d, AllOk(1)) \/ Startup(d, AllOk(5))) =>
             ScanResult(saved_mods', mod_entries', d) = mod_entries']_vars

C8_Witness ==
    /\ last_op = "scan_mods"
    /\ Len(mod_entries) = NumMods
    /\ mod_entries[1].name = 2
    /\ mod_entries[1].enabled

\* C9: with a selected entry not at a boundary, move_up then move_down (and
\* move_down then move_up), one right after the other, act on the same
\* entry, because the selection follows it, and restore the original order.
HistIndex(h) == CHOOSE i \in h.selection : TRUE
HistName(h) == At(h.entries, HistIndex(h)).name
CanMoveUp(h) ==
    h.selection # {} /\ HistIndex(h) >= 1 /\ HistIndex(h) <= Len(h.entries) - 1
CanMoveDown(h) ==
    h.selection # {} /\ HistIndex(h) >= 0 /\ HistIndex(h) <= Len(h.entries) - 2
BackAndForth(first, second) ==
    /\ Len(hist) = 2
    /\ hist[1].op = first
    /\ hist[2].op = second
    /\ IF first = "move_up" THEN CanMoveUp(hist[1]) ELSE CanMoveDown(hist[1])

C9_MoveIsInverse ==
    \A ops \in {<<"move_up", "move_down">>, <<"move_down", "move_up">>} :
        BackAndForth(ops[1], ops[2]) =>
            /\ hist[2].selection # {}
            /\ HistName(hist[2]) = HistName(hist[1])
            /\ hist[2].entries # hist[1].entries
            /\ mod_entries = hist[1].entries
            /\ selection = hist[1].selection

C9_Witness ==
    /\ BackAndForth("move_up", "move_down")
    /\ Len(mod_entries) = NumMods
    /\ mod_entries = hist[1].entries
    /\ \E i \in DOMAIN mod_entries : mod_entries[i].enabled

\* C10: move_up and move_down are total: with no selection, with index 0
\* (move_up) or the last index (move_down), or with any index out of bounds
\* (below 0, at or above the length, the empty list included) the call is a
\* no-op that leaves the list as it is and raises nothing.
OutOfBounds == HasSelection /\ (SelectedIndex < 0 \/ SelectedIndex >= Len(mod_entries))
UpIsNoOp == ~HasSelection \/ SelectedIndex = 0 \/ OutOfBounds
DownIsNoOp == ~HasSelection \/ SelectedIndex = Len(mod_entries) - 1 \/ OutOfBounds

C10_MovesAreTotal ==
    [][((move_up(AllOk(1)) /\ UpIsNoOp) \/ (move_down(AllOk(1)) /\ DownIsNoOp)) =>
          /\ mod_entries' = mod_entries
          /\ raised' = "none"]_vars


\* C11: enable_all / disable_all sets the flag of every entry to the value
\* and raises exactly one change notification per entry, whatever scans came
\* before: every entry carries one trace, and the handler makes one save per
\* notification plus its own (each save posts one log record).
C11_SetAllNotifiesEach ==
    /\ [][\A v \in BOOLEAN :
             (UiReady /\ SetAll(v, AllOk(NumMods + 1))) =>
                /\ mod_entries' =
                      [i \in DOMAIN mod_entries |->
                          [mod_entries[i] EXCEPT !.enabled = v]]
                /\ Len(after_queue') =
                      Len(after_queue) + Len(mod_entries) + 1]_vars
    /\ [](/\ DOMAIN traces = Names(mod_entries)
          /\ \A n \in DOMAIN traces : traces[n] = 1)

C11_Witness ==
    /\ last_op = "disable_all"
    /\ Len(mod_entries) = NumMods
    /\ Len(after_queue) = NumMods + 1
    /\ mod_entries[1].name = 2
    /\ \A i \in DOMAIN mod_entries : ~mod_entries[i].enabled

\* C12: after any sequence of scans, moves, toggles, enable_all and
\* disable_all no two entries of the list have the same identity.
C12_UniqueIdentity ==
    \A i, j \in DOMAIN mod_entries :
        i # j => mod_entries[i].name # mod_entries[j].name

C12_Witness ==
    /\ last_op = "move_down"
    /\ Len(after_queue) = 1
    /\ Len(mod_entries) = NumMods
    /\ selection = {1}

\* C13: after n calls of LogPanel.log the log holds exactly the
\* min(n, MAX_LOG_LINES) records appended last, in the order they were
\* appended.
LineId(i) == log_tail[i].text[1]
HeldIds == {LineId(i) : i \in DOMAIN log_tail}
KeptCount == IF appended < MAX_LOG_LINES THEN appended ELSE MAX_LOG_LINES

C13_LogHoldsLastRecords ==
    /\ HeldIds = (appended - KeptCount + 1)..appended
    /\ \A i \in 1..(Len(log_tail) - 1) : LineId(i) <= LineId(i + 1)

\* C14: every record is in the log entirely (its timestamp and all lines of
\* its message) or not at all.
C14_WholeRecords ==
    /\ log_tail # <<>> => log_tail[1].text[2] = 1
    /\ \A i \in DOMAIN log_tail :
          LET id == log_tail[i].text[1]
              k == log_tail[i].text[2]
              h == log_tail[i].text[3]
          IN /\ log_tail[i].stamped <=> k = 1
             /\ k < h => /\ i < Len(log_tail)
                         /\ log_tail[i + 1].text = <<id, k + 1, h>>
             /\ k > 1 => /\ i > 1
                         /\ log_tail[i - 1].text = <<id, k - 1, h>>


\* C15: after every handler that changed the list or a path (a move that
\* changed the order, a toggle, enable_all, disable_all, a write to a path
\* variable, the path writes of the load) and after every scan, the store's
\* save has been called since, and its last call carried the current paths
\* and the current list with its flags: with the store answering success
\* the persisted configuration is the current one.
Saved ==
    config_file = CurrentConfig(game_path, cfgbin_path, violacli_path,
                                tmp_dir, mod_entries)
SavedRecord == Rec("Configuration saved", "success")

C15_AutoSave ==
    /\ [][(\/ <<pathVars, mod_entries>>' # <<pathVars, mod_entries>>
           \/ \E d \in ScanSets : scan_mods(d, AllOk(1))) =>
             /\ Saved'
             /\ Len(after_queue') > Len(after_queue)
             /\ after_queue'[Len(after_queue')] = SavedRecord]_vars
    /\ [](phase = "mainloop" => Saved)

C15_Witness ==
    /\ last_op = "move_up"
    /\ Len(after_queue) = 1
    /\ Len(mod_entries) = NumMods
    /\ mod_entries[1].enabled
    /\ game_path # ""
    /\ violacli_path # ""
    /\ Saved

\* C16: the worker never touches the log panel: what the job, or the merge
\* collaborator through its log callback, wants logged is posted as a
\* callback, and the panel changes only when the event loop runs the oldest
\* posted callback.
WorkerStep ==
    \E j \in DOMAIN jobs :
        \/ worker_calls_merge(j)
        \/ viola_logs(j)
        \/ \E out \in Outcomes :
              \/ worker_merge_returns(j, out)
              \/ worker_copy_returns(j, out)
              \/ worker_cleanup_returns(j, out)

PostsAtMostOne ==
    \/ after_queue' = after_queue
    \/ /\ Len(after_queue') = Len(after_queue) + 1
       /\ SubSeq(after_queue', 1, Len(after_queue)) = after_queue

C16_WorkerPostsLogRecords ==
    /\ [][WorkerStep => (log_tail' = log_tail /\ PostsAtMostOne)]_vars
    /\ [][log_tail' # log_tail =>
             /\ RunPosted
             /\ log_tail' = LastRecord(LogPanelLog(log_tail,
                                <<Head(after_queue).text>>,
                                Head(after_queue).level))]_vars

C16_Witness ==
    /\ log_tail # <<>>
    /\ log_tail[1].text = "violacli output"
    /\ \E j \in DOMAIN jobs : jobs[j].pc = "done"
    /\ after_queue # <<>>
    /\ after_queue[1].text = "MODS APPLIED!!"

\* C17: a merge that reports non-success, or a copy that reports failure,
\* ends the job with one error-level record and no success record; nothing
\* is called after it (no copy after the merge, no cleanup after the copy,
\* no retry) and the work directory is left as it is.
PostsOnly(rec) == after_queue' = Append(after_queue, rec)
EndsWithout(j) ==
    /\ jobs'[j].pc = "done"
    /\ jobs'[j].calls = jobs[j].calls
    /\ fs' = fs

C17_FailureLoggedAndLeft ==
    /\ [][\A j \in DOMAIN jobs :
             /\ worker_merge_returns(j, "fail") =>
                   /\ PostsOnly(Rec("violacli returned error; aborting copy.",
                                    "error"))
                   /\ EndsWithout(j)
             /\ worker_copy_returns(j, "fail") =>
                   /\ PostsOnly(Rec("Failed to copy merged files.", "error"))
                   /\ EndsWithout(j)]_vars
    /\ [][\A j \in DOMAIN jobs : jobs[j].pc = "done" => jobs'[j] = jobs[j]]_vars

C17_Witness ==
    \E j \in DOMAIN jobs :
        /\ jobs[j].pc = "done"
        /\ jobs[j].returns = <<"ok", "fail">>
        /\ Len(jobs[j].calls) = 2
        /\ fs.tmp_data # <<>>
        /\ after_queue # <<>>
        /\ after_queue[Len(after_queue)].level = "error"

JobRaises(j) ==
    \/ worker_merge_returns(j, "raise")
    \/ worker_copy_returns(j, "raise")
    \/ worker_cleanup_returns(j, "raise")

C19_ExceptionsCaught ==
    /\ [][\A j \in DOMAIN jobs :
             JobRaises(j) =>
                /\ PostsOnly(Rec("Unexpected error", "error"))
                /\ jobs'[j].pc = "done"
                /\ jobs'[j].calls = jobs[j].calls
                /\ UNCHANGED <<raised, dialog, log_tail>>]_vars
    /\ [][(apply_mods("ok") /\ AliveJobs = {} /\ ~SomePathBad
              /\ GetEnabledMods(mod_entries) # <<>>) =>
             /\ Len(jobs') = Len(jobs) + 1
             /\ raised' = "none"
             /\ dialog' = NoDialog]_vars

C19_Witness ==
    /\ Len(jobs) = 2
    /\ jobs[1].pc = "done"
    /\ jobs[1].returns = <<"ok", "ok", "raise">>
    /\ jobs[2].pc = "start"
    /\ last_op = "apply_mods"

\* C20: every save that reports failure shows the error alert and posts one
\* error-level record; every save that reports success posts exactly one
\* success record and shows no alert.
SaveRecords(oks, n) ==
    [i \in 1..n |->
        IF oks[i] THEN SavedRecord
        ELSE Rec("Could not save configuration.", "error")]
SaveAlert(oks, n) ==
    IF \E i \in 1..n : ~oks[i]
    THEN Box("error", "Could not save configuration.")
    ELSE NoDialog
Surfaced(oks, n) ==
    /\ after_queue' = after_queue \o SaveRecords(oks, n)
    /\ dialog' = SaveAlert(oks, n)

C20_SaveOutcomeSurfaced ==
    [][/\ \A oks \in Answers(1) :
             (toggle(oks) /\ HasSelection) => Surfaced(oks, 1)
       /\ \A oks \in Answers(NumMods + 1) :
             (enable_all(oks) \/ disable_all(oks)) =>
                Surfaced(oks, Len(mod_entries) + 1)]_vars

C20_Witness ==
    /\ last_op = "enable_all"
    /\ dialog = Box("error", "Could not save configuration.")
    /\ Len(after_queue) = NumMods + 1
    /\ after_queue[1].level = "error"
    /\ after_queue[NumMods + 1].level = "success"
    /\ Saved

\* C21: exit protocol.  The window is torn down while a job is in flight
\* only after the user said yes to the exit prompt and the worker was asked
\* to stop; when the user says no the window stays, no stop is requested and
\* nothing is saved; an accepted close requests the stop (if a job is
\* running), then saves, then tears the window down.
CloseStep == \E answer \in BOOLEAN, oks \in Answers(1) : on_close(answer, oks)
TornDown == phase = "mainloop" /\ phase' = "closed"
Position(steps, s) == CHOOSE i \in DOMAIN steps : steps[i] = s
StopAsked(js) == \E j \in DOMAIN js : js[j].stop_requested

Confirmed(inflight) ==
    (TornDown /\ inflight) =>
        /\ Does(hist', "askyesno")
        /\ Does(hist', "stop")
        /\ StopAsked(jobs')
Declined ==
    (CloseStep /\ phase' = "mainloop") =>
        /\ hist' = <<"askyesno">>
        /\ dialog' = Box("askyesno", EXIT_PROMPT)
        /\ UNCHANGED <<jobs, config_file, after_queue, pathVars, listVars, fs>>
StopSaveTeardown ==
    TornDown =>
        /\ Does(hist', "save") /\ Does(hist', "destroy")
        /\ Position(hist', "save") < Position(hist', "destroy")
        /\ hist'[Len(hist')] = "destroy"
        /\ is_running => /\ Does(hist', "stop")
                          /\ Position(hist', "stop") < Position(hist', "save")
        /\ Len(after_queue') = Len(after_queue) + 1

C21_ExitProtocol ==
    [][Confirmed(AliveJobs # {}) /\ Declined /\ StopSaveTeardown]_vars

\* C21 with "in flight" read as what is_running() reports.
C21_ExitProtocolWhenRunning ==
    [][Confirmed(is_running) /\ Declined /\ StopSaveTeardown]_vars

C21_Witness ==
    /\ phase = "closed"
    /\ hist = <<"askyesno", "stop", "save", "destroy">>
    /\ StopAsked(jobs)
    /\ dialog = Box("error", "Could not save configuration.")

\* C22: order and enabled state are independent.  move_up / move_down
\* exchange the selected entry with its neighbour and change nothing else:
\* every other position, every entry's flag and the set of entries stay;
\* toggle, enable_all and disable_all leave the order of the list as it is,
\* and toggle changes the flag of the selected entry only.
OrderOf(entries) == [i \in DOMAIN entries |-> entries[i].name]
FlagOf(entries, n) == entries[PosOfName(entries, n)].enabled
SameFlags(before, after) ==
    /\ Names(after) = Names(before)
    /\ Len(after) = Len(before)
    /\ \A n \in Names(before) : FlagOf(after, n) = FlagOf(before, n)
ExchangesOnly(before, after, a, b) ==
    /\ SameFlags(before, after)
    /\ \A i \in DOMAIN before : i \notin {a, b} => after[i] = before[i]
    /\ ({a, b} \subseteq DOMAIN before /\ after # before) =>
          (after[a] = before[b] /\ after[b] = before[a])

C22_OrderAndFlagsIndependent ==
    [][/\ move_up(AllOk(1)) =>
             IF HasSelection
             THEN ExchangesOnly(mod_entries, mod_entries',
                                SelectedIndex + 1, SelectedIndex)
             ELSE mod_entries' = mod_entries
       /\ move_down(AllOk(1)) =>
             IF HasSelection
             THEN ExchangesOnly(mod_entries, mod_entries',
                                SelectedIndex + 1, SelectedIndex + 2)
             ELSE mod_entries' = mod_entries
       /\ toggle(AllOk(1)) =>
             /\ OrderOf(mod_entries') = OrderOf(mod_entries)
             /\ \A i \in DOMAIN mod_entries :
                   mod_entries'[i].enabled =
                      IF HasSelection /\ i = SelectedIndex + 1
                      THEN ~mod_entries[i].enabled
                      ELSE mod_entries[i].enabled
       /\ (enable_all(AllOk(NumMods + 1)) \/ disable_all(AllOk(NumMods + 1))) =>
             OrderOf(mod_entries') = OrderOf(mod_entries)]_vars

C22_Witness ==
    /\ last_op = "move_up"
    /\ OrderOf(mod_entries) = <<1, 2>>
    /\ selection = {0}
    /\ ~mod_entries[1].enabled
    /\ mod_entries[2].enabled
    /\ config_file.mods = SavedOf(mod_entries)

\* C23: every started job ends (each collaborator call returning or
\* raising), and it posts exactly one record of its own, with the step that
\* ends it: the success record "MODS APPLIED!!" if merge and copy returned
\* success and cleanup did not raise, an error-level record otherwise.
Succeeded(returns) ==
    /\ Len(returns) = 3
    /\ returns[1] = "ok"
    /\ returns[2] = "ok"
    /\ returns[3] # "raise"
JobMoves(j) == jobs'[j] # jobs[j]
PostsTerminal(j) ==
    /\ Len(after_queue') = Len(after_queue) + 1
    /\ SubSeq(after_queue', 1, Len(after_queue)) = after_queue
    /\ LET r == after_queue'[Len(after_queue')]
       IN IF Succeeded(jobs'[j].returns)
          THEN r = Rec("MODS APPLIED!!", "success")
          ELSE r.level = "error"

C23_JobsEndWithOneRecord ==
    /\ \A j \in JobIds :
          (j \in DOMAIN jobs) ~> (j \in DOMAIN jobs /\ jobs[j].pc = "done")
    /\ [][\A j \in DOMAIN jobs :
             JobMoves(j) =>
                /\ jobs[j].pc # "done"
                /\ IF jobs'[j].pc = "done"
                   THEN PostsTerminal(j)
                   ELSE after_queue' = after_queue]_vars

C23_Witness ==
    \E j \in DOMAIN jobs :
        /\ jobs[j].pc = "done"
        /\ jobs[j].returns = <<"ok", "ok", "fail">>
        /\ after_queue = <<Rec("MODS APPLIED!!", "success")>>

\* C24: a job works on the values of the moment its apply was accepted: the
\* merge is called with the merge tool path, the base config path, the
\* enabled mod paths in list order and the work directory of that moment,
\* the copy with the work directory and the game path of that moment,
\* whatever was moved, toggled, rescanned or edited in the window since.
ExpectedCall(h, call) ==
    CASE call[1] = "merge_mods" ->
            /\ Len(call) = 5
            /\ call[2] = Strip(h.violacli_path)
            /\ call[3] = Strip(h.cfgbin_path)
            /\ IsEnabledInOrder(call[4], h.entries)
            /\ call[5] = Abspath(h.tmp_dir)
      [] call[1] = "copy_merged_files" ->
            call = <<"copy_merged_files", Join(Abspath(h.tmp_dir), "data"),
                     Join(Strip(h.game_path), "data")>>
      [] OTHER -> call = <<"cleanup_temp", Join(Abspath(h.tmp_dir), "data")>>

C24_JobUsesSnapshot ==
    \A j \in DOMAIN jobs :
        /\ j \in DOMAIN hist
        /\ \A i \in DOMAIN jobs[j].calls : ExpectedCall(hist[j], jobs[j].calls[i])

C24_Witness ==
    \E j \in DOMAIN jobs :
        /\ Len(jobs[j].calls) = 3
        /\ GetEnabledMods(mod_entries) # GetEnabledMods(hist[j].entries)
        /\ OrderOf(mod_entries) # OrderOf(hist[j].entries)
        /\ Strip(game_path) # Strip(hist[j].game_path)
        /\ Strip(violacli_path) # Strip(hist[j].violacli_path)
        /\ Strip(cfgbin_path) # Strip(hist[j].cfgbin_path)

\* C25: during startup (traces installed, configuration loaded, first scan)
\* no save carries less than what was loaded: whichever of the startup's
\* saves the store accepted last, the persisted configuration has the four
\* loaded path values, and its mod list is not empty when the loaded
\* configuration listed a mod that the scan still finds.
StartupStep == phase = "constructing" /\ phase' = "mainloop"
LoadedPaths(cfg) ==
    <<cfg.game_path, cfg.cfgbin_path, cfg.violacli_path, cfg.tmp_dir>>

C25_StartupSavesCarryLoaded ==
    [][StartupStep =>
          /\ LoadedPaths(config_file') = LoadedPaths(config_file)
          /\ (\E i \in DOMAIN config_file.mods :
                 config_file.mods[i].name \in Names(mod_entries')) =>
                config_file'.mods # <<>>]_vars

====
